---- MODULE Spec2Model ----
(***************************************************************************)
(* AudioPWM (micropython/audiopwm.py) and its entry point                  *)
(* (micropython/main.py): a foreground context calling play_file / stop /  *)
(* set_volume / is_playing, and the background playback threads that       *)
(* play_file launches.  Every foreground method and the playback loop are  *)
(* cut into steps at statement boundaries, named after the source line     *)
(* they start at, so that the two contexts interleave as the interpreter   *)
(* lets them.                                                              *)
(***************************************************************************)
EXTENDS Integers, Sequences, FiniteSets, TLC

(* ------------------------------ bounds --------------------------------- *)

\* play_file calls that open a stream, per behaviour
MaxPlays == 2
\* modulus of the tick counter (ticks_add / ticks_diff wrap around it)
TickPeriod == 256
\* largest jitter of the clock: microseconds that may pass between two reads
\* of it, besides the sample periods that Delays adds
MaxDelay == 2
\* bytes of the longest clip on the storage
ClipLen == 2
\* bytes of the longest clip main() is run on
MainClipLen == 6
\* bytes of the longest clip that is streamed through the buffer, chunk by
\* chunk
StreamLen == 131
\* the sample rates an engine is constructed with go up to RateSteps kHz
RateSteps == 100
\* gains are the fractions n / GainDen
GainDen == 10

(* --------------------------- program constants ------------------------- *)

None == 0
_DEFAULT_CHUNK_SIZE == 1024
MinChunkSize == 128

SAMPLE_RATE == 8000
SAMPLE_BITS == 16
SIGNED_SAMPLES == "True"
CLIP_PATH == "/testera.raw"

(* ------------------------------ state ---------------------------------- *)

VARIABLES
    \* AudioPWM's fields (the derived ones are the definitions below)
    _sample_bits, _signed, _little_endian, _chunk_size, _period_us,
    _volume, _file, _buffer, _buf_len, _buf_pos,
    _playing, _stop_requested, _thread_id,
    \* the collaborators: last duty written to the PWM, the files on the
    \* storage, every stream opened so far, the tick counter and the most
    \* that it jitters between two reads
    duty, storage, streams, now, jitter,
    \* the background threads launched so far, each with its position in
    \* _playback_loop and its locals
    threads,
    \* the foreground context: its position inside the method it runs, where
    \* stop() returns to, play_file's argument and locals, the last return
    \* value
    fgpc, stop_ret, path, f, tid, ret,
    \* the engine's state when the caller's current call began, and how the
    \* last call ended
    entry, outcome,
    \* the caller: main()'s position, or "client" for an arbitrary caller
    mainpc,
    \* the decoder on its own: the integer that was encoded into the buffer,
    \* where, and what _next_sample returned for it
    probe,
    \* the PWM double of a test: whether it records, and the duty values the
    \* background wrote to it, in order
    recorder

vars == << _sample_bits, _signed, _little_endian, _chunk_size, _period_us,
           _volume, _file, _buffer, _buf_len, _buf_pos,
           _playing, _stop_requested, _thread_id,
           duty, storage, streams, now, jitter, threads,
           fgpc, stop_ret, path, f, tid, ret, entry, outcome, mainpc,
           probe, recorder >>

config == << _sample_bits, _signed, _little_endian, _chunk_size, _period_us,
             storage, jitter, probe >>

(* ------------------------- AudioPWM.__init__ --------------------------- *)

Max(a, b) == IF a >= b THEN a ELSE b
Min(a, b) == IF a <= b THEN a ELSE b

\* signed: "None" (the default), "True" or "False"
ResolveSigned(sample_bits, signed) ==
    IF signed = "None" THEN sample_bits # 8 ELSE signed = "True"

ChunkSize(chunk_size, bytes_per_sample) ==
    LET chunk0 == IF chunk_size < MinChunkSize THEN MinChunkSize ELSE chunk_size
        remainder == chunk0 % bytes_per_sample
        chunk1 == IF remainder # 0
                  THEN chunk0 + (bytes_per_sample - remainder) ELSE chunk0
    IN  IF chunk1 < bytes_per_sample THEN bytes_per_sample ELSE chunk1

\* int(1_000_000 / sample_rate) truncates the quotient
PeriodUs(sample_rate) == Max(1, 1000000 \div sample_rate)

_bytes_per_sample == _sample_bits \div 8
_max_value == (2 ^ _sample_bits) - 1
_midpoint == 2 ^ (_sample_bits - 1)
_duty_scale == IF _sample_bits = 8 THEN 257 ELSE 1

Zeros(n) == [i \in 1..n |-> 0]

\* The engine after AudioPWM(sample_rate=, chunk_size=, sample_bits=,
\* signed=, little_endian=) returned
Constructed(sample_rate, chunk_size, sample_bits, signed, little_endian) ==
    /\ sample_bits \in {8, 16}
    /\ _sample_bits = sample_bits
    /\ _signed = ResolveSigned(sample_bits, signed)
    /\ _little_endian = little_endian
    /\ _chunk_size = ChunkSize(chunk_size, sample_bits \div 8)
    /\ _period_us = PeriodUs(sample_rate)
    /\ _volume = GainDen
    /\ _file = None
    /\ _buffer = Zeros(_chunk_size)
    /\ _buf_len = 0
    /\ _buf_pos = 0
    /\ _playing = FALSE
    /\ _stop_requested = FALSE
    /\ _thread_id = None
    /\ duty = 0

(* ------------------------------ storage -------------------------------- *)

\* A clip of n bytes
Clip(n) == [i \in 1..n |-> (i * 77 + 51) % 256]

\* open(path, "rb") raises OSError for a path that is not on the storage
FullStorage ==
    [p \in {CLIP_PATH, "/empty.raw", "/odd.raw"} |->
        IF p = CLIP_PATH THEN Clip(ClipLen)
        ELSE IF p = "/odd.raw" THEN Clip(1) ELSE << >>]

Paths == {CLIP_PATH, "/empty.raw", "/odd.raw", "/missing.raw"}

\* stream.read(n): up to n bytes from the stream's position
ReadData(h, n) ==
    LET s == streams[h]
        content == storage[s.path]
    IN  SubSeq(content, s.pos + 1, Min(s.pos + n, Len(content)))

(* ---------------------------- clock ------------------------------------ *)

ticks_add(t, delta) == (t + delta) % TickPeriod

ticks_diff(a, b) ==
    (((a - b) + (TickPeriod \div 2)) % TickPeriod) - (TickPeriod \div 2)

\* Time that passed since the clock was last read: the jitter, or a whole
\* sample period and the jitter (an iteration that overran its deadline)
Delays == (0..jitter) \cup {_period_us + j : j \in 0..jitter}

(* --------------------------- AudioPWM._refill -------------------------- *)

\* _refill without line 148: the cursor stays where it was
RefillKeepCursor ==
    IF _file = None
    THEN [ok |-> FALSE, raised |-> FALSE, buffer |-> _buffer,
          len |-> _buf_len, pos |-> _buf_pos, streams |-> streams]
    ELSE IF streams[_file].closed
    THEN [ok |-> FALSE, raised |-> TRUE, buffer |-> _buffer,
          len |-> _buf_len, pos |-> _buf_pos, streams |-> streams]
    ELSE
      LET data == ReadData(_file, _chunk_size)
          after == [streams EXCEPT ![_file].pos = @ + Len(data)]
          remainder == Len(data) % _bytes_per_sample
          data_len == Len(data) - remainder
      IN  IF Len(data) = 0 \/ data_len <= 0
          THEN [ok |-> FALSE, raised |-> FALSE, buffer |-> _buffer,
                len |-> _buf_len, pos |-> _buf_pos, streams |-> after]
          ELSE [ok |-> TRUE, raised |-> FALSE,
                buffer |-> [i \in 1..Len(_buffer) |->
                              IF i <= data_len THEN data[i] ELSE _buffer[i]],
                len |-> data_len, pos |-> _buf_pos, streams |-> after]

\* _refill without lines 139-143: the bytes of a trailing partial sample
\* are kept
RefillNoTrim ==
    IF _file = None
    THEN [ok |-> FALSE, raised |-> FALSE, buffer |-> _buffer,
          len |-> _buf_len, pos |-> _buf_pos, streams |-> streams]
    ELSE IF streams[_file].closed
    THEN [ok |-> FALSE, raised |-> TRUE, buffer |-> _buffer,
          len |-> _buf_len, pos |-> _buf_pos, streams |-> streams]
    ELSE
      LET data == ReadData(_file, _chunk_size)
          after == [streams EXCEPT ![_file].pos = @ + Len(data)]
      IN  IF Len(data) = 0
          THEN [ok |-> FALSE, raised |-> FALSE, buffer |-> _buffer,
                len |-> _buf_len, pos |-> _buf_pos, streams |-> after]
          ELSE [ok |-> TRUE, raised |-> FALSE,
                buffer |-> [i \in 1..Len(_buffer) |->
                              IF i <= Len(data) THEN data[i] ELSE _buffer[i]],
                len |-> Len(data), pos |-> 0, streams |-> after]

\* raised: the read raised (the stream was closed under the reader)
Refill ==
    IF _file = None
    THEN [ok |-> FALSE, raised |-> FALSE, buffer |-> _buffer,
          len |-> _buf_len, pos |-> _buf_pos, streams |-> streams]
    ELSE IF streams[_file].closed
    THEN [ok |-> FALSE, raised |-> TRUE, buffer |-> _buffer,
          len |-> _buf_len, pos |-> _buf_pos, streams |-> streams]
    ELSE
      LET data == ReadData(_file, _chunk_size)
          after == [streams EXCEPT ![_file].pos = @ + Len(data)]
          remainder == Len(data) % _bytes_per_sample
          data_len == Len(data) - remainder
      IN  IF Len(data) = 0 \/ data_len <= 0
          THEN [ok |-> FALSE, raised |-> FALSE, buffer |-> _buffer,
                len |-> _buf_len, pos |-> _buf_pos, streams |-> after]
          ELSE [ok |-> TRUE, raised |-> FALSE,
                buffer |-> [i \in 1..Len(_buffer) |->
                              IF i <= data_len THEN data[i] ELSE _buffer[i]],
                len |-> data_len, pos |-> 0, streams |-> after]

(* ------------------------- AudioPWM._next_sample ----------------------- *)

\* _next_sample with the two byte orders exchanged
SwappedNextSample(buffer, pos) ==
    IF _bytes_per_sample = 1
    THEN LET sample == buffer[pos + 1]
         IN  [value |-> IF _signed /\ sample >= 128 THEN sample - 256 ELSE sample,
              pos |-> pos + 1]
    ELSE LET b0 == buffer[pos + 1]
             b1 == buffer[pos + 2]
             value == IF _little_endian THEN (b0 * 256) + b1 ELSE b0 + (b1 * 256)
             sign_bit == 2 ^ (_sample_bits - 1)
             mask == (2 ^ _sample_bits) - 1
         IN  [value |-> IF _signed /\ (value \div sign_bit) % 2 = 1
                        THEN value - (mask + 1) ELSE value,
              pos |-> pos + 2]

\* The sample decoded from buffer at cursor pos, and the cursor after it.
\* b0 | (b1 << 8) is b0 + 256 * b1 for bytes b0, b1; value & sign_bit is
\* non-zero when bit 15 of value is set.
NextSample(buffer, pos) ==
    IF _bytes_per_sample = 1
    THEN LET sample == buffer[pos + 1]
         IN  [value |-> IF _signed /\ sample >= 128 THEN sample - 256 ELSE sample,
              pos |-> pos + 1]
    ELSE LET b0 == buffer[pos + 1]
             b1 == buffer[pos + 2]
             value == IF _little_endian THEN b0 + (b1 * 256) ELSE (b0 * 256) + b1
             sign_bit == 2 ^ (_sample_bits - 1)
             mask == (2 ^ _sample_bits) - 1
         IN  [value |-> IF _signed /\ (value \div sign_bit) % 2 = 1
                        THEN value - (mask + 1) ELSE value,
              pos |-> pos + 2]

\* buffer[i] raises IndexError beyond the bytearray
NextSampleRaises(buffer, pos) == pos + _bytes_per_sample > Len(buffer)

(* ------------------------ AudioPWM._apply_volume ----------------------- *)

\* _apply_volume with the unsigned branch (line 178) taken for every format
ApplyVolumeUnsigned(sample, volume) ==
    LET num == (sample - _midpoint) * volume
        centered == IF num >= 0
                    THEN ((2 * num) + GainDen) \div (2 * GainDen)
                    ELSE -((((-2) * num) + GainDen) \div (2 * GainDen))
        value0 == centered + _midpoint
        value == IF value0 < 0 THEN 0
                 ELSE IF value0 > _max_value THEN _max_value ELSE value0
    IN  value * _duty_scale

\* The gain is the fraction volume / GainDen, so centered is num / GainDen;
\* int() truncates toward zero.
ApplyVolume(sample, volume) ==
    LET num == IF _signed THEN sample * volume
               ELSE (sample - _midpoint) * volume
        centered == IF num >= 0
                    THEN ((2 * num) + GainDen) \div (2 * GainDen)
                    ELSE -((((-2) * num) + GainDen) \div (2 * GainDen))
        value0 == centered + _midpoint
        value == IF value0 < 0 THEN 0
                 ELSE IF value0 > _max_value THEN _max_value ELSE value0
    IN  value * _duty_scale

(* ----------------------- the foreground's frames ----------------------- *)

Snapshot(op) ==
    [op |-> op, playing |-> _playing, stop_requested |-> _stop_requested,
     file |-> _file, buf_pos |-> _buf_pos, buf_len |-> _buf_len,
     thread_id |-> _thread_id, launched |-> Len(threads)]

\* The running method returns val to its caller; its locals die with it
Return(val, how) ==
    /\ fgpc' = "idle"
    /\ ret' = val
    /\ outcome' = how
    /\ stop_ret' = "caller"
    /\ path' = ""
    /\ f' = None
    /\ tid' = None

(* --------------------------- AudioPWM.stop ----------------------------- *)

Stop94 ==
    /\ fgpc = "stop_94"
    /\ _stop_requested' = TRUE
    /\ fgpc' = "stop_95"
    /\ UNCHANGED << config, recorder,
                    _volume, _file, _buffer, _buf_len, _buf_pos,
                    _playing, _thread_id, duty, streams, now, threads,
                    stop_ret, path, f, tid, ret, entry, outcome, mainpc >>

Stop95 ==
    /\ fgpc = "stop_95"
    /\ _playing' = FALSE
    /\ fgpc' = "stop_96"
    /\ UNCHANGED << config, recorder,
                    _volume, _file, _buffer, _buf_len, _buf_pos,
                    _stop_requested, _thread_id, duty, streams, now, threads,
                    stop_ret, path, f, tid, ret, entry, outcome, mainpc >>

\* Lines 96-99 without the wait for the worker
Stop96NoJoin ==
    /\ fgpc = "stop_96"
    /\ fgpc' = "stop_100"
    /\ UNCHANGED << config, recorder,
                    _volume, _file, _buffer, _buf_len, _buf_pos,
                    _playing, _stop_requested, _thread_id, duty, streams, now,
                    threads, stop_ret, path, f, tid, ret, entry, outcome,
                    mainpc >>

\* Lines 96-99: the wait for the worker.  While _thread_id is not None the
\* foreground sleeps 5 ms and tests again, which changes nothing; it goes on
\* once it reads None.
Stop96 ==
    /\ fgpc = "stop_96"
    /\ _thread_id = None
    /\ fgpc' = "stop_100"
    /\ UNCHANGED << config, recorder,
                    _volume, _file, _buffer, _buf_len, _buf_pos,
                    _playing, _stop_requested, _thread_id, duty, streams, now,
                    threads, stop_ret, path, f, tid, ret, entry, outcome,
                    mainpc >>

\* Lines 100-105 without the close
Stop100NoClose ==
    /\ fgpc = "stop_100"
    /\ _file' = None
    /\ fgpc' = "stop_106"
    /\ UNCHANGED << config, recorder,
                    _volume, _buffer, _buf_len, _buf_pos, _playing,
                    _stop_requested, _thread_id, duty, streams, now, threads,
                    stop_ret, path, f, tid, ret, entry, outcome, mainpc >>

\* Lines 100-105: close() is called on the stream, and the handle is cleared
\* whether or not close() raised OSError
Stop100 ==
    /\ fgpc = "stop_100"
    /\ IF _file # None
       THEN /\ streams' = [streams EXCEPT ![_file].closed = TRUE]
            /\ _file' = None
       ELSE UNCHANGED << streams, _file >>
    /\ fgpc' = "stop_106"
    /\ UNCHANGED << config, recorder,
                    _volume, _buffer, _buf_len, _buf_pos, _playing,
                    _stop_requested, _thread_id, duty, now, threads,
                    stop_ret, path, f, tid, ret, entry, outcome, mainpc >>

Stop106 ==
    /\ fgpc = "stop_106"
    /\ _buf_pos' = 0
    /\ fgpc' = "stop_107"
    /\ UNCHANGED << config, recorder, _volume, _file, _buffer, _buf_len,
                    _playing, _stop_requested, _thread_id, duty, streams, now,
                    threads, stop_ret, path, f, tid, ret, entry, outcome,
                    mainpc >>

Stop107 ==
    /\ fgpc = "stop_107"
    /\ _buf_len' = 0
    /\ fgpc' = "stop_108"
    /\ UNCHANGED << config, recorder, _volume, _file, _buffer, _buf_pos,
                    _playing, _stop_requested, _thread_id, duty, streams, now,
                    threads, stop_ret, path, f, tid, ret, entry, outcome,
                    mainpc >>

\* Line 108, and the return to the caller or into play_file
Stop108 ==
    /\ fgpc = "stop_108"
    /\ duty' = 0
    /\ IF stop_ret = "caller"
       THEN Return(ret, "stopped")
       ELSE /\ fgpc' = stop_ret
            /\ stop_ret' = "caller"
            /\ UNCHANGED << path, f, tid, ret, outcome >>
    /\ UNCHANGED << config, recorder,
                    _volume, _file, _buffer, _buf_len, _buf_pos,
                    _playing, _stop_requested, _thread_id, streams, now,
                    threads, entry, mainpc >>

(* ------------------------- AudioPWM.play_file -------------------------- *)

\* play_file without the stop() of line 71
Play71NoStop ==
    /\ fgpc = "play_71"
    /\ fgpc' = "play_72"
    /\ UNCHANGED << config, recorder,
                    _volume, _file, _buffer, _buf_len, _buf_pos,
                    _playing, _stop_requested, _thread_id, duty, streams, now,
                    threads, stop_ret, path, f, tid, ret, entry, outcome,
                    mainpc >>

Play71 ==
    /\ fgpc = "play_71"
    /\ fgpc' = "stop_94"
    /\ stop_ret' = "play_72"
    /\ UNCHANGED << config, recorder,
                    _volume, _file, _buffer, _buf_len, _buf_pos,
                    _playing, _stop_requested, _thread_id, duty, streams, now,
                    threads, path, f, tid, ret, entry, outcome, mainpc >>

Play72 ==
    /\ fgpc = "play_72"
    /\ IF path \notin DOMAIN storage
       THEN /\ Return(FALSE, "open_failed")
            /\ UNCHANGED streams
       ELSE /\ streams' = Append(streams,
                                 [path |-> path, pos |-> 0, closed |-> FALSE])
            /\ f' = Len(streams) + 1
            /\ fgpc' = "play_77"
            /\ UNCHANGED << stop_ret, path, tid, ret, outcome >>
    /\ UNCHANGED << config, recorder,
                    _volume, _file, _buffer, _buf_len, _buf_pos,
                    _playing, _stop_requested, _thread_id, duty, now,
                    threads, entry, mainpc >>

Play77 ==
    /\ fgpc = "play_77"
    /\ _file' = f
    /\ fgpc' = "play_78"
    /\ UNCHANGED << config, recorder,
                    _volume, _buffer, _buf_len, _buf_pos, _playing,
                    _stop_requested, _thread_id, duty, streams, now, threads,
                    stop_ret, path, f, tid, ret, entry, outcome, mainpc >>

Play78 ==
    /\ fgpc = "play_78"
    /\ _stop_requested' = FALSE
    /\ _playing' = TRUE
    /\ fgpc' = "play_80"
    /\ UNCHANGED << config, recorder,
                    _volume, _file, _buffer, _buf_len, _buf_pos,
                    _thread_id, duty, streams, now, threads,
                    stop_ret, path, f, tid, ret, entry, outcome, mainpc >>

Play80 ==
    /\ fgpc = "play_80"
    /\ _buf_len' = 0
    /\ fgpc' = "play_81"
    /\ UNCHANGED << config, recorder, _volume, _file, _buffer, _buf_pos,
                    _playing, _stop_requested, _thread_id, duty, streams, now,
                    threads, stop_ret, path, f, tid, ret, entry, outcome,
                    mainpc >>

Play81 ==
    /\ fgpc = "play_81"
    /\ _buf_pos' = 0
    /\ fgpc' = "play_83"
    /\ UNCHANGED << config, recorder, _volume, _file, _buffer, _buf_len,
                    _playing, _stop_requested, _thread_id, duty, streams, now,
                    threads, stop_ret, path, f, tid, ret, entry, outcome,
                    mainpc >>

\* Lines 83-85 without the stop() of a failed priming
Play83NoAbort ==
    /\ fgpc = "play_83"
    /\ LET r == Refill
       IN  /\ _buffer' = r.buffer
           /\ _buf_len' = r.len
           /\ _buf_pos' = r.pos
           /\ streams' = r.streams
           /\ fgpc' = IF r.ok THEN "play_87" ELSE "play_85"
    /\ UNCHANGED << config, recorder, _volume, _file, _playing, _stop_requested,
                    _thread_id, duty, now, threads, stop_ret,
                    path, f, tid, ret, entry, outcome, mainpc >>

\* Lines 83-84: the priming refill, and the call of stop() when it fails
Play83 ==
    /\ fgpc = "play_83"
    /\ LET r == Refill
       IN  /\ _buffer' = r.buffer
           /\ _buf_len' = r.len
           /\ _buf_pos' = r.pos
           /\ streams' = r.streams
           /\ fgpc' = IF r.ok THEN "play_87" ELSE "stop_94"
           /\ stop_ret' = IF r.ok THEN stop_ret ELSE "play_85"
    /\ UNCHANGED << config, recorder, _volume, _file, _playing, _stop_requested,
                    _thread_id, duty, now, threads,
                    path, f, tid, ret, entry, outcome, mainpc >>

Play85 ==
    /\ fgpc = "play_85"
    /\ Return(FALSE, "prime_failed")
    /\ UNCHANGED << config, recorder,
                    _volume, _file, _buffer, _buf_len, _buf_pos,
                    _playing, _stop_requested, _thread_id, duty, streams, now,
                    threads, entry, mainpc >>

\* Line 87, right-hand side: the thread is started, and start_new_thread
\* returns its identifier (never None: lines 96-99 wait on it)
Play87 ==
    /\ fgpc = "play_87"
    /\ threads' = Append(threads,
                         [pc |-> "bg_112", period |-> 0, next_tick |-> 0,
                          start |-> 0, k |-> 0, sample |-> 0, late |-> 0])
    /\ tid' = Len(threads) + 1
    /\ fgpc' = "play_87s"
    /\ UNCHANGED << config, recorder,
                    _volume, _file, _buffer, _buf_len, _buf_pos,
                    _playing, _stop_requested, _thread_id, duty, streams, now,
                    stop_ret, path, f, ret, entry, outcome, mainpc >>

\* Line 87, the store into _thread_id, and line 88
Play87Store ==
    /\ fgpc = "play_87s"
    /\ _thread_id' = tid
    /\ Return(TRUE, "started")
    /\ UNCHANGED << config, recorder,
                    _volume, _file, _buffer, _buf_len, _buf_pos,
                    _playing, _stop_requested, duty, streams, now, threads,
                    entry, mainpc >>

(* ----------------------- AudioPWM._playback_loop ----------------------- *)

Running(t) == t \in 1..Len(threads) /\ threads[t].pc # "done"

At(t, pc) == t \in 1..Len(threads) /\ threads[t].pc = pc

\* The loop's locals are dead once the loop is left for the finally block
Goto(t, pc) ==
    threads' = [threads EXCEPT
                  ![t] = IF pc = "bg_127"
                         THEN [pc |-> pc, period |-> 0, next_tick |-> 0,
                               start |-> 0, k |-> 0, sample |-> 0, late |-> 0]
                         ELSE [@ EXCEPT !.pc = pc]]

\* Lines 112-113: the clock is read once; start is that reading
Bg112(t) ==
    /\ At(t, "bg_112")
    /\ \E d \in Delays :
         LET ticks_us == (now + d) % TickPeriod
         IN  /\ now' = ticks_us
             /\ threads' = [threads EXCEPT
                              ![t].pc = "bg_115",
                              ![t].period = _period_us,
                              ![t].start = ticks_us,
                              ![t].next_tick = ticks_add(ticks_us, _period_us)]
    /\ UNCHANGED << config, recorder,
                    _volume, _file, _buffer, _buf_len, _buf_pos,
                    _playing, _stop_requested, _thread_id, duty, streams,
                    fgpc, stop_ret, path, f, tid, ret, entry, outcome,
                    mainpc >>

\* Line 115 as "while True": the stop request is never tested
Bg115NoTest(t) ==
    /\ At(t, "bg_115")
    /\ Goto(t, "bg_116")
    /\ UNCHANGED << config, recorder, _volume, _file, _buffer, _buf_len,
                    _buf_pos, _playing, _stop_requested, _thread_id, duty,
                    streams, now, fgpc, stop_ret, path, f, tid, ret, entry,
                    outcome, mainpc >>

\* Line 115: the test of the stop request, once per iteration
Bg115(t) ==
    /\ At(t, "bg_115")
    /\ Goto(t, IF _stop_requested THEN "bg_127" ELSE "bg_116")
    /\ UNCHANGED << config, recorder,
                    _volume, _file, _buffer, _buf_len, _buf_pos,
                    _playing, _stop_requested, _thread_id, duty, streams, now,
                    fgpc, stop_ret, path, f, tid, ret, entry, outcome,
                    mainpc >>

\* Lines 116-118 with the exhaustion test _buf_pos > _buf_len
Bg116OffByOne(t) ==
    /\ At(t, "bg_116")
    /\ IF _buf_pos > _buf_len
       THEN LET r == Refill
            IN  /\ _buffer' = r.buffer
                /\ _buf_len' = r.len
                /\ _buf_pos' = r.pos
                /\ streams' = r.streams
                /\ Goto(t, IF r.ok THEN "bg_119" ELSE "bg_127")
       ELSE /\ Goto(t, "bg_119")
            /\ UNCHANGED << _buffer, _buf_len, _buf_pos, streams >>
    /\ UNCHANGED << config, recorder, _volume, _file, _playing,
                    _stop_requested, _thread_id, duty, now,
                    fgpc, stop_ret, path, f, tid, ret, entry, outcome,
                    mainpc >>

\* Lines 116-118: refill on exhaustion; the loop is left when the refill
\* fails, or raises
Bg116(t) ==
    /\ At(t, "bg_116")
    /\ IF _buf_pos >= _buf_len
       THEN LET r == Refill
            IN  /\ _buffer' = r.buffer
                /\ _buf_len' = r.len
                /\ _buf_pos' = r.pos
                /\ streams' = r.streams
                /\ Goto(t, IF r.ok THEN "bg_119" ELSE "bg_127")
       ELSE /\ Goto(t, "bg_119")
            /\ UNCHANGED << _buffer, _buf_len, _buf_pos, streams >>
    /\ UNCHANGED << config, recorder, _volume, _file, _playing, _stop_requested,
                    _thread_id, duty, now,
                    fgpc, stop_ret, path, f, tid, ret, entry, outcome,
                    mainpc >>

\* Line 119
Bg119(t) ==
    /\ At(t, "bg_119")
    /\ IF NextSampleRaises(_buffer, _buf_pos)
       THEN /\ Goto(t, "bg_127")
            /\ UNCHANGED _buf_pos
       ELSE LET s == NextSample(_buffer, _buf_pos)
            IN  /\ _buf_pos' = s.pos
                /\ threads' = [threads EXCEPT ![t].pc = "bg_120",
                                              ![t].sample = s.value]
    /\ UNCHANGED << config, recorder, _volume, _file, _buffer, _buf_len,
                    _playing, _stop_requested, _thread_id, duty, streams, now,
                    fgpc, stop_ret, path, f, tid, ret, entry, outcome,
                    mainpc >>

\* What the PWM double holds after the background wrote the duty value d
Recorded(d) ==
    IF recorder.on THEN [recorder EXCEPT !.log = Append(@, d)] ELSE recorder

\* Lines 120-121.  late counts the duty values this thread wrote since it
\* first wrote one with the stop request set.
Bg120(t) ==
    /\ At(t, "bg_120")
    /\ duty' = ApplyVolume(threads[t].sample, _volume)
    /\ recorder' = Recorded(duty')
    /\ threads' = [threads EXCEPT
                     ![t].pc = "bg_123",
                     ![t].late = IF _stop_requested \/ @ > 0 THEN @ + 1
                                 ELSE 0]
    /\ UNCHANGED << config, _volume, _file, _buffer, _buf_len, _buf_pos,
                    _playing, _stop_requested, _thread_id, streams, now,
                    fgpc, stop_ret, path, f, tid, ret, entry, outcome,
                    mainpc >>

\* Lines 123-125 with the deadline taken from the current time
Bg123Drifting(t) ==
    /\ At(t, "bg_123")
    /\ \E d \in Delays \ {0} :
         LET ticks_us == (now + d) % TickPeriod
         IN  /\ now' = ticks_us
             /\ IF ticks_diff(threads[t].next_tick, ticks_us) > 0
                THEN UNCHANGED threads
                ELSE threads' = [threads EXCEPT
                       ![t].pc = "bg_115",
                       ![t].k = @ + 1,
                       ![t].next_tick = ticks_add(ticks_us, threads[t].period)]
    /\ UNCHANGED << config, recorder,
                    _volume, _file, _buffer, _buf_len, _buf_pos,
                    _playing, _stop_requested, _thread_id, duty, streams,
                    fgpc, stop_ret, path, f, tid, ret, entry, outcome,
                    mainpc >>

\* Lines 123-125: one reading of the clock in the busy-wait (time has passed
\* since the reading before); the loop spins while the deadline is ahead,
\* and then advances the deadline by period.  k counts the iterations done.
Bg123(t) ==
    /\ At(t, "bg_123")
    /\ \E d \in Delays \ {0} :
         LET ticks_us == (now + d) % TickPeriod
         IN  /\ now' = ticks_us
             /\ IF ticks_diff(threads[t].next_tick, ticks_us) > 0
                THEN UNCHANGED threads
                ELSE threads' = [threads EXCEPT
                       ![t].pc = "bg_115",
                       ![t].k = @ + 1,
                       ![t].next_tick = ticks_add(@, threads[t].period)]
    /\ UNCHANGED << config, recorder,
                    _volume, _file, _buffer, _buf_len, _buf_pos,
                    _playing, _stop_requested, _thread_id, duty, streams,
                    fgpc, stop_ret, path, f, tid, ret, entry, outcome,
                    mainpc >>

\* The finally block without line 127
Bg127Skipped(t) ==
    /\ At(t, "bg_127")
    /\ Goto(t, "bg_128")
    /\ UNCHANGED << config, recorder,
                    _volume, _file, _buffer, _buf_len, _buf_pos,
                    _playing, _stop_requested, _thread_id, duty, streams, now,
                    fgpc, stop_ret, path, f, tid, ret, entry, outcome,
                    mainpc >>

\* Lines 127-130: the finally block, statement by statement
Bg127(t) ==
    /\ At(t, "bg_127")
    /\ _playing' = FALSE
    /\ Goto(t, "bg_128")
    /\ UNCHANGED << config, recorder,
                    _volume, _file, _buffer, _buf_len, _buf_pos,
                    _stop_requested, _thread_id, duty, streams, now,
                    fgpc, stop_ret, path, f, tid, ret, entry, outcome,
                    mainpc >>

Bg128(t) ==
    /\ At(t, "bg_128")
    /\ _stop_requested' = FALSE
    /\ Goto(t, "bg_129")
    /\ UNCHANGED << config, recorder,
                    _volume, _file, _buffer, _buf_len, _buf_pos,
                    _playing, _thread_id, duty, streams, now,
                    fgpc, stop_ret, path, f, tid, ret, entry, outcome,
                    mainpc >>

Bg129(t) ==
    /\ At(t, "bg_129")
    /\ _thread_id' = None
    /\ Goto(t, "bg_130")
    /\ UNCHANGED << config, recorder,
                    _volume, _file, _buffer, _buf_len, _buf_pos,
                    _playing, _stop_requested, duty, streams, now,
                    fgpc, stop_ret, path, f, tid, ret, entry, outcome,
                    mainpc >>

\* The finally block without line 130
Bg130NoZero(t) ==
    /\ At(t, "bg_130")
    /\ threads' = [threads EXCEPT
                     ![t] = [pc |-> "done", period |-> 0, next_tick |-> 0,
                             start |-> 0, k |-> 0, sample |-> 0, late |-> 0]]
    /\ UNCHANGED << config, recorder, _volume, _file, _buffer, _buf_len,
                    _buf_pos, _playing, _stop_requested, _thread_id, duty,
                    streams, now, fgpc, stop_ret, path, f, tid, ret, entry,
                    outcome, mainpc >>

\* Line 130 is the thread's last statement; its frame goes with it
Bg130(t) ==
    /\ At(t, "bg_130")
    /\ duty' = 0
    /\ recorder' = Recorded(0)
    /\ threads' = [threads EXCEPT
                     ![t] = [pc |-> "done", period |-> 0, next_tick |-> 0,
                             start |-> 0, k |-> 0, sample |-> 0, late |-> 0]]
    /\ UNCHANGED << config, _volume, _file, _buffer, _buf_len, _buf_pos,
                    _playing, _stop_requested, _thread_id, streams, now,
                    fgpc, stop_ret, path, f, tid, ret, entry, outcome,
                    mainpc >>

Background(t) ==
    \/ Bg112(t) \/ Bg115(t) \/ Bg116(t) \/ Bg119(t) \/ Bg120(t) \/ Bg123(t)
    \/ Bg127(t) \/ Bg128(t) \/ Bg129(t) \/ Bg130(t)

\* A step of the method the foreground is in
Foreground ==
    \/ Stop94 \/ Stop95 \/ Stop96 \/ Stop100 \/ Stop106 \/ Stop107
    \/ Stop108
    \/ Play71 \/ Play72 \/ Play77 \/ Play78 \/ Play80 \/ Play81 \/ Play83
    \/ Play85 \/ Play87 \/ Play87Store

(* ------------------------------ callers -------------------------------- *)

\* is_playing (lines 90-91)
is_playing == _playing

\* set_volume without the upper clamp
SetVolumeNoCeiling(gain01) ==
    /\ _volume' = IF gain01 < 0 THEN 0 ELSE gain01
    /\ UNCHANGED << config, recorder, _file, _buffer, _buf_len, _buf_pos,
                    _playing, _stop_requested, _thread_id, duty, streams, now,
                    threads, fgpc, stop_ret, path, f, tid, ret >>

\* set_volume (lines 66-68), with the gain gain01 / GainDen
SetVolume(gain01) ==
    /\ _volume' = IF gain01 < 0 THEN 0
                  ELSE IF gain01 > GainDen THEN GainDen ELSE gain01
    /\ UNCHANGED << config, recorder,
                    _file, _buffer, _buf_len, _buf_pos, _playing,
                    _stop_requested, _thread_id, duty, streams, now, threads,
                    fgpc, stop_ret, path, f, tid, ret >>

GainInputs == {-GainDen, GainDen \div 2, 5 * GainDen}

\* An arbitrary caller: any method, with any argument, whenever the call
\* before has returned
ClientPlay(p) ==
    /\ mainpc = "client"
    /\ fgpc = "idle"
    /\ Len(streams) < MaxPlays
    /\ fgpc' = "play_71"
    /\ path' = p
    /\ entry' = Snapshot("play_file")
    /\ outcome' = "running"
    /\ UNCHANGED << config, recorder,
                    _volume, _file, _buffer, _buf_len, _buf_pos,
                    _playing, _stop_requested, _thread_id, duty, streams, now,
                    threads, stop_ret, f, tid, ret, mainpc >>

ClientStop ==
    /\ mainpc = "client"
    /\ fgpc = "idle"
    /\ fgpc' = "stop_94"
    /\ entry' = Snapshot("stop")
    /\ outcome' = "running"
    /\ UNCHANGED << config, recorder,
                    _volume, _file, _buffer, _buf_len, _buf_pos,
                    _playing, _stop_requested, _thread_id, duty, streams, now,
                    threads, stop_ret, path, f, tid, ret, mainpc >>

ClientSetVolume(gain01) ==
    /\ mainpc = "client"
    /\ fgpc = "idle"
    /\ SetVolume(gain01)
    /\ UNCHANGED << entry, outcome, mainpc >>

Client ==
    \/ \E p \in Paths : ClientPlay(p)
    \/ ClientStop
    \/ \E g \in GainInputs : ClientSetVolume(g)

\* <<sample_bits, signed, little_endian>>
Formats == {<<8, "None", TRUE>>, <<16, "None", FALSE>>}
SampleRates == {1000000}
NoProbe == [x |-> 0, pos |-> 0, decoded |-> FALSE, value |-> 0]

\* A PWM that keeps no record of what is written to it
NoRecorder == [on |-> FALSE, log |-> << >>]
ChunkSizes == {_DEFAULT_CHUNK_SIZE \div 16}

Init ==
    /\ \E sample_rate \in SampleRates, chunk_size \in ChunkSizes,
          format \in Formats :
         Constructed(sample_rate, chunk_size, format[1], format[2],
                     format[3])
    /\ storage = FullStorage
    /\ streams = << >>
    /\ now = 0
    /\ jitter = 0
    /\ threads = << >>
    /\ fgpc = "idle"
    /\ stop_ret = "caller"
    /\ path = ""
    /\ f = None
    /\ tid = None
    /\ ret = FALSE
    /\ entry = Snapshot("none")
    /\ outcome = "none"
    /\ mainpc = "client"
    /\ probe = NoProbe
    /\ recorder = NoRecorder

Next ==
    \/ Client
    \/ Foreground
    \/ \E t \in 1..MaxPlays : Background(t)

Spec == Init /\ [][Next]_vars

(* ------------------------------- main() -------------------------------- *)

\* Line 25: set_volume(0.9)
Main25 ==
    /\ mainpc = "main_25"
    /\ fgpc = "idle"
    /\ SetVolume((9 * GainDen) \div 10)
    /\ mainpc' = "main_27"
    /\ UNCHANGED << entry, outcome >>

\* Line 27: the call of play_file
Main27 ==
    /\ mainpc = "main_27"
    /\ fgpc = "idle"
    /\ fgpc' = "play_71"
    /\ path' = CLIP_PATH
    /\ entry' = Snapshot("play_file")
    /\ outcome' = "running"
    /\ mainpc' = "main_27r"
    /\ UNCHANGED << config, recorder,
                    _volume, _file, _buffer, _buf_len, _buf_pos,
                    _playing, _stop_requested, _thread_id, duty, streams, now,
                    threads, stop_ret, f, tid, ret >>

\* Lines 27-29: main returns when play_file returned False
Main27Ret ==
    /\ mainpc = "main_27r"
    /\ fgpc = "idle"
    /\ mainpc' = IF ret THEN "main_32" ELSE "main_end"
    /\ UNCHANGED << config, recorder,
                    _volume, _file, _buffer, _buf_len, _buf_pos,
                    _playing, _stop_requested, _thread_id, duty, streams, now,
                    threads, fgpc, stop_ret, path, f, tid, ret, entry,
                    outcome >>

\* Lines 32-33: the polling loop sleeps while is_playing() and is left when
\* it returns False
Main32 ==
    /\ mainpc = "main_32"
    /\ ~is_playing
    /\ mainpc' = "main_35"
    /\ UNCHANGED << config, recorder,
                    _volume, _file, _buffer, _buf_len, _buf_pos,
                    _playing, _stop_requested, _thread_id, duty, streams, now,
                    threads, fgpc, stop_ret, path, f, tid, ret, entry,
                    outcome >>

\* Line 35: the call of stop
Main35 ==
    /\ mainpc = "main_35"
    /\ fgpc = "idle"
    /\ fgpc' = "stop_94"
    /\ entry' = Snapshot("stop")
    /\ outcome' = "running"
    /\ mainpc' = "main_35r"
    /\ UNCHANGED << config, recorder,
                    _volume, _file, _buffer, _buf_len, _buf_pos,
                    _playing, _stop_requested, _thread_id, duty, streams, now,
                    threads, stop_ret, path, f, tid, ret >>

Main35Ret ==
    /\ mainpc = "main_35r"
    /\ fgpc = "idle"
    /\ mainpc' = "main_end"
    /\ UNCHANGED << config, recorder,
                    _volume, _file, _buffer, _buf_len, _buf_pos,
                    _playing, _stop_requested, _thread_id, duty, streams, now,
                    threads, fgpc, stop_ret, path, f, tid, ret, entry,
                    outcome >>

Main == Main25 \/ Main27 \/ Main27Ret \/ Main32 \/ Main35 \/ Main35Ret

\* main() on a storage that holds a clip of any length up to longest at
\* CLIP_PATH, or no file there, started at one of the readings clocks of a
\* jittering clock
MainRun(longest, clocks) ==
    /\ Constructed(SAMPLE_RATE, _DEFAULT_CHUNK_SIZE, SAMPLE_BITS,
                   SIGNED_SAMPLES, TRUE)
    /\ storage \in {[p \in {CLIP_PATH} |-> Clip(n)] : n \in 0..longest}
                   \cup {<< >>}
    /\ streams = << >>
    /\ now \in clocks
    /\ jitter = MaxDelay
    /\ threads = << >>
    /\ fgpc = "idle"
    /\ stop_ret = "caller"
    /\ path = ""
    /\ f = None
    /\ tid = None
    /\ ret = FALSE
    /\ entry = Snapshot("none")
    /\ outcome = "none"
    /\ mainpc = "main_25"
    /\ probe = NoProbe
    /\ recorder = NoRecorder

MainInit == MainRun(MainClipLen, {0, TickPeriod - 1})

MainNext ==
    \/ Main
    \/ Foreground
    \/ \E t \in 1..MaxPlays : Background(t)

MainSpec == MainInit /\ [][MainNext]_vars

\* Both contexts keep being scheduled: the interpreter switches threads
\* between bytecodes, and sleep_ms hands the processor over
FairMainSpec ==
    /\ MainRun(ClipLen, {0})
    /\ [][MainNext]_vars
    /\ WF_vars(Main)
    /\ WF_vars(Foreground)
    /\ \A t \in 1..MaxPlays : WF_vars(Background(t))

(* ------------------------ the decoder on its own ----------------------- *)

\* The two's-complement encoding of x in the engine's format, in file order
Encode(x) ==
    LET u == IF x < 0 THEN x + (2 ^ _sample_bits) ELSE x
    IN  IF _sample_bits = 8 THEN << u >>
        ELSE IF _little_endian THEN << u % 256, u \div 256 >>
        ELSE << u \div 256, u % 256 >>

\* The integers of the engine's format
SampleRange ==
    IF _signed THEN (-(2 ^ (_sample_bits - 1))) .. ((2 ^ (_sample_bits - 1)) - 1)
    ELSE 0 .. ((2 ^ _sample_bits) - 1)

\* An engine of any format whose buffer holds the encoding of any x of the
\* format's range at the cursor, at the start or at the end of the buffer
DecodeInit ==
    /\ \E sample_bits \in {8, 16}, signed \in {"True", "False"},
          little_endian \in BOOLEAN :
         /\ _sample_bits = sample_bits
         /\ _signed = ResolveSigned(sample_bits, signed)
         /\ _little_endian = little_endian
         /\ _chunk_size = ChunkSize(MinChunkSize, sample_bits \div 8)
    /\ _period_us = PeriodUs(SAMPLE_RATE)
    /\ _volume = GainDen
    /\ _file = None
    /\ _buf_pos \in {0, _chunk_size - _bytes_per_sample}
    /\ _buf_len = _chunk_size
    /\ \E x \in SampleRange :
         /\ probe = [x |-> x, pos |-> _buf_pos, decoded |-> FALSE, value |-> 0]
         /\ recorder = NoRecorder
         /\ _buffer = [i \in 1.._chunk_size |->
                         IF i > _buf_pos /\ i <= _buf_pos + _bytes_per_sample
                         THEN Encode(x)[i - _buf_pos] ELSE 0]
    /\ _playing = FALSE
    /\ _stop_requested = FALSE
    /\ _thread_id = None
    /\ duty = 0
    /\ storage = << >>
    /\ streams = << >>
    /\ now = 0
    /\ jitter = 0
    /\ threads = << >>
    /\ fgpc = "idle"
    /\ stop_ret = "caller"
    /\ path = ""
    /\ f = None
    /\ tid = None
    /\ ret = FALSE
    /\ entry = Snapshot("none")
    /\ outcome = "none"
    /\ mainpc = "decoder"

\* One call of _next_sample
DecodeCall ==
    /\ mainpc = "decoder"
    /\ ~probe.decoded
    /\ ~NextSampleRaises(_buffer, _buf_pos)
    /\ LET s == NextSample(_buffer, _buf_pos)
       IN  /\ _buf_pos' = s.pos
           /\ probe' = [probe EXCEPT !.decoded = TRUE, !.value = s.value]
    /\ UNCHANGED << _sample_bits, _signed, _little_endian, _chunk_size,
                    _period_us, storage, jitter,
                    _volume, _file, _buffer, _buf_len,
                    _playing, _stop_requested, _thread_id, duty, streams, now,
                    threads, fgpc, stop_ret, path, f, tid, ret, entry,
                    outcome, mainpc, recorder >>

DecodeNext == DecodeCall

DecodeSpec == DecodeInit /\ [][DecodeNext]_vars

(* --------------------------- _refill on its own ------------------------- *)

\* The lengths of the streamed clips: the shortest ones, and the ones around
\* the smallest buffer's capacity
StreamLens == {n \in 0..StreamLen : n <= 3 \/ n >= MinChunkSize - 2}

\* An engine of either sample width with the smallest buffer, and a stream
\* just opened on a clip; probe is the last call of _refill: what it returned,
\* and the valid length, the cursor and the stream's position when it began
RefillInit ==
    /\ \E sample_bits \in {8, 16} :
         /\ _sample_bits = sample_bits
         /\ _signed = ResolveSigned(sample_bits, "None")
         /\ _chunk_size = ChunkSize(MinChunkSize, sample_bits \div 8)
    /\ _little_endian = TRUE
    /\ _period_us = PeriodUs(SAMPLE_RATE)
    /\ _volume = GainDen
    /\ \E n \in StreamLens : storage = [p \in {CLIP_PATH} |-> Clip(n)]
    /\ streams = << [path |-> CLIP_PATH, pos |-> 0, closed |-> FALSE] >>
    /\ _file = 1
    /\ _buffer = Zeros(_chunk_size)
    /\ _buf_len = 0
    /\ _buf_pos = 0
    /\ _playing = FALSE
    /\ _stop_requested = FALSE
    /\ _thread_id = None
    /\ duty = 0
    /\ now = 0
    /\ jitter = 0
    /\ threads = << >>
    /\ fgpc = "idle"
    /\ stop_ret = "caller"
    /\ path = ""
    /\ f = None
    /\ tid = None
    /\ ret = FALSE
    /\ entry = Snapshot("none")
    /\ outcome = "none"
    /\ mainpc = "refill"
    /\ probe = [called |-> FALSE, ret |-> FALSE, len |-> 0, pos |-> 0,
                at |-> 0]
    /\ recorder = NoRecorder

\* One call of _refill, at any cursor
RefillCall ==
    /\ mainpc = "refill"
    /\ LET r == Refill
       IN  /\ ~r.raised
           /\ _buffer' = r.buffer
           /\ _buf_len' = r.len
           /\ _buf_pos' = r.pos
           /\ streams' = r.streams
           /\ probe' = [called |-> TRUE, ret |-> r.ok, len |-> _buf_len,
                        pos |-> _buf_pos, at |-> streams[_file].pos]
    /\ UNCHANGED << _sample_bits, _signed, _little_endian, _chunk_size,
                    _period_us, storage, jitter, recorder,
                    _volume, _file, _playing, _stop_requested, _thread_id,
                    duty, now, threads, fgpc, stop_ret, path, f, tid, ret,
                    entry, outcome, mainpc >>

\* One call of _next_sample between two refills: a sample of the buffer is
\* consumed
RefillConsume ==
    /\ mainpc = "refill"
    /\ _buf_pos + _bytes_per_sample <= _buf_len
    /\ _buf_pos' = NextSample(_buffer, _buf_pos).pos
    /\ probe' = [probe EXCEPT !.called = FALSE]
    /\ UNCHANGED << _sample_bits, _signed, _little_endian, _chunk_size,
                    _period_us, storage, jitter, recorder,
                    _volume, _file, _buffer, _buf_len, _playing,
                    _stop_requested, _thread_id, duty, streams, now, threads,
                    fgpc, stop_ret, path, f, tid, ret, entry, outcome,
                    mainpc >>

RefillNext == RefillCall \/ RefillConsume

RefillSpec == RefillInit /\ [][RefillNext]_vars

(* ------------------------ _apply_volume on its own ---------------------- *)

\* An engine of any sample width and signedness; probe is the call of
\* _apply_volume: its argument, any sample of the format's range, the gain
\* it was made at and what it returned
VolumeInit ==
    /\ \E sample_bits \in {8, 16}, signed \in {"True", "False"} :
         Constructed(SAMPLE_RATE, MinChunkSize, sample_bits, signed, TRUE)
    /\ storage = << >>
    /\ streams = << >>
    /\ now = 0
    /\ jitter = 0
    /\ threads = << >>
    /\ fgpc = "idle"
    /\ stop_ret = "caller"
    /\ path = ""
    /\ f = None
    /\ tid = None
    /\ ret = FALSE
    /\ entry = Snapshot("none")
    /\ outcome = "none"
    /\ mainpc = "volume"
    /\ \E x \in SampleRange :
         probe = [sample |-> x, applied |-> FALSE, volume |-> 0, value |-> 0]
    /\ recorder = NoRecorder

\* set_volume(0.0), set_volume(0.5) or set_volume(1.0)
VolumeSet ==
    /\ mainpc = "volume"
    /\ \E gain01 \in {0, GainDen \div 2, GainDen} : SetVolume(gain01)
    /\ UNCHANGED << entry, outcome, mainpc >>

\* One call of _apply_volume
VolumeCall ==
    /\ mainpc = "volume"
    /\ ~probe.applied
    /\ probe' = [probe EXCEPT !.applied = TRUE,
                              !.volume = _volume,
                              !.value = ApplyVolume(probe.sample, _volume)]
    /\ UNCHANGED << _sample_bits, _signed, _little_endian, _chunk_size,
                    _period_us, storage, jitter, recorder,
                    _volume, _file, _buffer, _buf_len, _buf_pos, _playing,
                    _stop_requested, _thread_id, duty, streams, now, threads,
                    fgpc, stop_ret, path, f, tid, ret, entry, outcome,
                    mainpc >>

VolumeNext == VolumeSet \/ VolumeCall

VolumeSpec == VolumeInit /\ [][VolumeNext]_vars

(* ------------------------- the period on its own ------------------------ *)

\* The sample rates an engine is constructed with: every whole number of
\* kHz, the CD rates, and rates above a million samples a second
RateInputs ==
    {1000 * r : r \in 1..RateSteps}
        \cup {11025, 22050, 44100, 1000000, 2000000, 3000000}

\* The constructor has reached line 64 with the given sample rate; probe is
\* that rate, and whether line 64 has been executed
PeriodInit ==
    /\ \E sample_bits \in {8, 16} :
         /\ _sample_bits = sample_bits
         /\ _signed = ResolveSigned(sample_bits, "None")
         /\ _chunk_size = ChunkSize(_DEFAULT_CHUNK_SIZE, sample_bits \div 8)
    /\ _little_endian = TRUE
    /\ _period_us = 0
    /\ _volume = GainDen
    /\ _file = None
    /\ _buffer = Zeros(_chunk_size)
    /\ _buf_len = 0
    /\ _buf_pos = 0
    /\ _playing = FALSE
    /\ _stop_requested = FALSE
    /\ _thread_id = None
    /\ duty = 0
    /\ storage = << >>
    /\ streams = << >>
    /\ now = 0
    /\ jitter = 0
    /\ threads = << >>
    /\ fgpc = "idle"
    /\ stop_ret = "caller"
    /\ path = ""
    /\ f = None
    /\ tid = None
    /\ ret = FALSE
    /\ entry = Snapshot("none")
    /\ outcome = "none"
    /\ mainpc = "period"
    /\ \E sample_rate \in RateInputs :
         probe = [sample_rate |-> sample_rate, constructed |-> FALSE]
    /\ recorder = NoRecorder

\* Line 64
PeriodCall ==
    /\ mainpc = "period"
    /\ ~probe.constructed
    /\ _period_us' = PeriodUs(probe.sample_rate)
    /\ probe' = [probe EXCEPT !.constructed = TRUE]
    /\ UNCHANGED << _sample_bits, _signed, _little_endian, _chunk_size,
                    storage, jitter, recorder,
                    _volume, _file, _buffer, _buf_len, _buf_pos, _playing,
                    _stop_requested, _thread_id, duty, streams, now, threads,
                    fgpc, stop_ret, path, f, tid, ret, entry, outcome,
                    mainpc >>

PeriodNext == PeriodCall

PeriodSpec == PeriodInit /\ [][PeriodNext]_vars

(* ---------------------- a clip streamed to its end ---------------------- *)

\* main()'s calls on an engine of either format with the smallest buffer and
\* a sample period of one tick, on a clip shorter or longer than the buffer,
\* with a PWM that records what the background writes to it
StreamInit ==
    /\ \E format \in Formats :
         Constructed(1000000, MinChunkSize, format[1], format[2], format[3])
    /\ \E n \in StreamLens : storage = [p \in {CLIP_PATH} |-> Clip(n)]
    /\ streams = << >>
    /\ now = 0
    /\ jitter = 0
    /\ threads = << >>
    /\ fgpc = "idle"
    /\ stop_ret = "caller"
    /\ path = ""
    /\ f = None
    /\ tid = None
    /\ ret = FALSE
    /\ entry = Snapshot("none")
    /\ outcome = "none"
    /\ mainpc = "main_25"
    /\ probe = NoProbe
    /\ recorder = [on |-> TRUE, log |-> << >>]

StreamSpec == StreamInit /\ [][MainNext]_vars

(* ------------------------------ the claims ----------------------------- *)

\* The worker can still execute line 129, which clears the handle
CanClear(t) == Running(t) /\ threads[t].pc # "bg_130"

\* The worker can still read or write the buffer, the cursor and the valid
\* length: it has not left the loop
InLoop(t) ==
    /\ t \in 1..Len(threads)
    /\ threads[t].pc \in {"bg_112", "bg_115", "bg_116", "bg_119", "bg_120",
                          "bg_123"}

\* C1: every call of stop() returns: stop() never waits for the background
\* handle when no worker is left that would clear it.
C1_StopReturns ==
    (fgpc = "stop_96" /\ _thread_id # None)
        => \E t \in 1..Len(threads) : CanClear(t)

\* C2: at most one background context exists at any time: never two that
\* were launched and have not executed their last statement.
C2_OneBackground ==
    Cardinality({t \in 1..Len(threads) : Running(t)}) <= 1

\* C3: the foreground writes the buffer, the cursor or the valid length
\* (lines 80-81, the priming refill of line 83, lines 106-107) only when no
\* background context can still read or write them.
C3_BufferOwnership ==
    fgpc \in {"play_80", "play_81", "play_83", "stop_106", "stop_107"}
        => \A t \in 1..Len(threads) : ~InLoop(t)

\* stop() waited for a worker of a playing session and now resets the cursor
C3_Witness ==
    /\ fgpc = "stop_106"
    /\ entry.playing
    /\ entry.thread_id # None
    /\ Len(threads) >= 1

\* C4: every stream but the one opened last has been closed, so an earlier
\* stream's close precedes a later stream's open and no two are open at once.
C4_CloseBeforeOpen ==
    \A h \in 1..(Len(streams) - 1) : streams[h].closed

\* play_file was called while a session was playing, and has opened its file
C4_Witness ==
    /\ Len(streams) = 2
    /\ entry.op = "play_file"
    /\ entry.playing
    /\ entry.file = 1
    /\ ~streams[2].closed

\* C5: on main()'s run (no stop() before the polling loop is left) the
\* worker ends, is_playing() becomes False and, once False after the start,
\* stays False, and the polling loop is left.
C5_PollingEnds ==
    /\ (Len(threads) = 1) ~> ~Running(1)
    /\ (mainpc = "main_32") ~> (mainpc = "main_35" /\ ~is_playing)
    /\ [][(mainpc \in {"main_32", "main_35", "main_35r", "main_end"}
             /\ ~is_playing) => ~is_playing']_vars

\* The polling loop was left after the worker played the longest clip to its
\* end
C5_Witness ==
    /\ mainpc = "main_35"
    /\ Len(threads) = 1
    /\ ~Running(1)
    /\ streams[1].pos = ClipLen

\* C6: play_file on a path that cannot be opened returns False, leaves
\* is_playing() False and the stream handle null, and launches no worker.
C6_OpenFailure ==
    outcome = "open_failed"
        => /\ ret = FALSE
           /\ ~is_playing
           /\ _file = None
           /\ Len(threads) = entry.launched

\* The failed call was made while a session was playing
C6_Witness ==
    /\ outcome = "open_failed"
    /\ entry.playing
    /\ entry.file # None

\* C7: when the first refill yields no complete sample, play_file returns
\* False, the file it opened is closed and the handle cleared, is_playing()
\* is False and no worker was launched.
C7_PrimingFailure ==
    outcome = "prime_failed"
        => /\ ret = FALSE
           /\ _file = None
           /\ streams[Len(streams)].closed
           /\ ~is_playing
           /\ Len(threads) = entry.launched

\* The file held fewer bytes than a sample
C7_Witness ==
    /\ outcome = "prime_failed"
    /\ streams[Len(streams)].path = "/odd.raw"
    /\ streams[Len(streams)].pos = 1

\* C8: a stop() called when is_playing() is False returns with the stream
\* handle, the playing flag, the stop-request flag, the cursor, the valid
\* length and the background handle as they were when it was called.
C8_StopIsNoOp ==
    [][(fgpc = "stop_108" /\ stop_ret = "caller" /\ fgpc' = "idle"
          /\ ~entry.playing)
        => << _file', _playing', _stop_requested', _buf_pos', _buf_len',
              _thread_id' >>
           = << entry.file, entry.playing, entry.stop_requested,
                entry.buf_pos, entry.buf_len, entry.thread_id >>]_vars

\* C9 as stated: the deadline awaited in iteration k is start + k * period.
C9_DeadlineFromStart ==
    \A t \in 1..Len(threads) :
        At(t, "bg_123")
            => threads[t].next_tick
               = (threads[t].start + (threads[t].k * threads[t].period))
                 % TickPeriod

\* C9, amended: the deadline awaited in iteration k (k = 0, 1, ...) is
\* start + (k + 1) * period in wraparound tick arithmetic, whatever time
\* the iterations took.
C9_DeadlineLaw ==
    \A t \in 1..Len(threads) :
        At(t, "bg_123")
            => threads[t].next_tick
               = (threads[t].start + ((threads[t].k + 1) * threads[t].period))
                 % TickPeriod

\* The third iteration waits for a deadline that wrapped around and that
\* the clock has already passed
C9_Witness ==
    /\ At(1, "bg_123")
    /\ threads[1].k = 2
    /\ threads[1].next_tick < threads[1].start
    /\ ticks_diff(threads[1].next_tick, now) < 0

\* C10: _next_sample on the encoding of x returns x and advances the cursor
\* by bytes-per-sample.
C10_RoundTrip ==
    probe.decoded
        => /\ probe.value = probe.x
           /\ _buf_pos = probe.pos + _bytes_per_sample

\* A negative 16-bit big-endian sample at the end of the buffer was decoded
C10_Witness ==
    /\ probe.decoded
    /\ probe.x = -2
    /\ _sample_bits = 16
    /\ ~_little_endian
    /\ probe.pos = _chunk_size - 2

\* The bytes that the call of _refill recorded in probe read from its stream
ReadByCall ==
    LET content == storage[streams[_file].path]
    IN  SubSeq(content, probe.at + 1,
               Min(probe.at + _chunk_size, Len(content)))

\* C11: a call of _refill whose read returned n > 0 bytes, of which at least
\* one whole sample, returned True with the valid length n rounded down to a
\* multiple of the sample width, the cursor 0 and those bytes, in order, at
\* the start of the buffer; a call whose read returned no byte, or less than
\* one sample, returned False and left the cursor and the valid length as
\* they were.
C11_RefillContract ==
    probe.called =>
        LET n == Len(ReadByCall)
            whole == n - (n % _bytes_per_sample)
        IN  IF n > 0 /\ whole > 0
            THEN /\ probe.ret
                 /\ _buf_len = whole
                 /\ _buf_pos = 0
                 /\ \A i \in 1..whole : _buffer[i] = ReadByCall[i]
            ELSE /\ ~probe.ret
                 /\ _buf_len = probe.len
                 /\ _buf_pos = probe.pos

\* A refill at the end of the stream, the cursor inside the buffer
RefillAtEnd ==
    /\ probe.called
    /\ ~probe.ret
    /\ probe.pos > 0
    /\ probe.pos < probe.len

\* A refill of a full buffer that had been consumed in part: the bytes
\* read end with half a sample, and are cut down to whole samples
C11_Witness ==
    /\ probe.called
    /\ probe.ret
    /\ probe.pos > 0
    /\ probe.len = _chunk_size
    /\ Len(ReadByCall) % _bytes_per_sample # 0
    /\ _buf_len > 0

\* C12: at the gain 0.0 _apply_volume returns midpoint * duty_scale for any
\* sample (32896 for unsigned 8-bit); at the gain 1.0 it returns
\* sample * duty_scale for an unsigned sample and
\* (sample + midpoint) * duty_scale for a signed one; and what it returns lies
\* in 0..65535.
C12_VolumeEndpoints ==
    probe.applied =>
        /\ probe.volume = 0 => probe.value = _midpoint * _duty_scale
        /\ (probe.volume = 0 /\ _sample_bits = 8) => probe.value = 32896
        /\ (probe.volume = GainDen /\ ~_signed) =>
               probe.value = probe.sample * _duty_scale
        /\ (probe.volume = GainDen /\ _signed) =>
               probe.value = (probe.sample + _midpoint) * _duty_scale
        /\ probe.value \in 0..65535

\* The most negative signed 16-bit sample at full gain
C12_Witness ==
    /\ probe.applied
    /\ _signed
    /\ _sample_bits = 16
    /\ probe.sample = -32768
    /\ probe.volume = GainDen
    /\ probe.value = 0

\* C13: the stored gain is always within [0, 1]; set_volume(g) stores 0 for
\* g < 0, 1 for g > 1 and g itself otherwise, and changes no other field of
\* the engine, nor the duty.
C13_VolumeClamped ==
    /\ [](_volume \in 0..GainDen)
    /\ [][\A g \in GainInputs :
            ClientSetVolume(g) =>
                /\ g < 0 => _volume' = 0
                /\ g > GainDen => _volume' = GainDen
                /\ (g >= 0 /\ g <= GainDen) => _volume' = g
                /\ UNCHANGED << _sample_bits, _signed, _little_endian,
                                _chunk_size, _period_us, _file, _buffer,
                                _buf_len, _buf_pos, _playing, _stop_requested,
                                _thread_id, duty >>]_vars

\* set_volume(-1.0) was called while a worker was in its loop
C13_Witness ==
    /\ _volume = 0
    /\ \E t \in 1..Len(threads) : InLoop(t)

\* C14: whenever every background context has exited and no foreground call
\* is in progress, the stream handle is null and every stream opened so far
\* is closed: the handle is non-null only while playback is active or being
\* shut down.
C14_StreamReleased ==
    (fgpc = "idle" /\ \A t \in 1..Len(threads) : ~Running(t))
        => /\ _file = None
           /\ \A h \in 1..Len(streams) : streams[h].closed

C16_DecoderPrecondition ==
    \A t \in 1..Len(threads) :
        At(t, "bg_119") => _buf_pos + _bytes_per_sample <= _buf_len

\* The loop is about to decode the last sample of the buffer while the
\* foreground is inside stop()
C16_Witness ==
    /\ \E t \in 1..Len(threads) : At(t, "bg_119")
    /\ _buf_pos + _bytes_per_sample = _buf_len
    /\ _buf_pos > 0
    /\ fgpc = "stop_96"

\* C17: after stop() has set the stop request, the background context
\* writes at most one further sample-derived duty value before it leaves
\* the loop for the finally block.
C17_BoundedCancellation ==
    \A t \in 1..Len(threads) : threads[t].late <= 1

\* stop() set the request after the loop's test of line 115, and the worker
\* wrote the sample of that iteration
C17_Witness ==
    /\ fgpc = "stop_96"
    /\ \E t \in 1..Len(threads) : At(t, "bg_123") /\ threads[t].late = 1

\* C19: whenever no background context is running and no foreground call
\* is in progress, the last duty written to the PWM is 0 and is_playing()
\* is false.
C19_SilentWhenIdle ==
    (fgpc = "idle" /\ \A t \in 1..Len(threads) : ~Running(t))
        => (duty = 0 /\ ~is_playing)

\* A session played to the end of its stream without a stop(): the worker
\* has finished and its stream was never closed
C19_Witness ==
    /\ fgpc = "idle"
    /\ Len(threads) = 1
    /\ ~Running(1)
    /\ ~streams[1].closed
    /\ streams[1].pos = ClipLen
    /\ duty = 0
    /\ ~is_playing

\* C18: the period is max(1, round(1_000_000 / sample_rate)) microseconds,
\* the quotient rounded to the nearest integer: 1 when the quotient is below
\* one half, and otherwise an integer no further than one half from the
\* quotient (23 for 44100 samples a second, 1 for 3_000_000).
C18_PeriodRounded ==
    probe.constructed =>
        /\ probe.sample_rate > 2000000 => _period_us = 1
        /\ probe.sample_rate <= 2000000 =>
               /\ 2 * ((_period_us * probe.sample_rate) - 1000000)
                      <= probe.sample_rate
               /\ 2 * (1000000 - (_period_us * probe.sample_rate))
                      <= probe.sample_rate
        /\ probe.sample_rate = 44100 => _period_us = 23
        /\ probe.sample_rate = 3000000 => _period_us = 1

\* The duty values of the complete samples of the clip at CLIP_PATH, decoded
\* in file order and scaled by the gain, and the final 0
ExpectedDuties ==
    LET content == storage[CLIP_PATH]
        count == Len(content) \div _bytes_per_sample
    IN  [i \in 1..(count + 1) |->
            IF i <= count
            THEN ApplyVolume(
                   NextSample(content, (i - 1) * _bytes_per_sample).value,
                   _volume)
            ELSE 0]

\* C20: when a file is played to its natural end without a stop(), the duty
\* values the background writes are, in file order and once each, the
\* volume-scaled decodings of the file's complete samples, across all the
\* refills and without a trailing partial sample, followed by the final
\* duty 0: what has been written is always a prefix of that sequence, and is
\* all of it once the worker has finished.
C20_WholeFileInOrder ==
    /\ Len(recorder.log) <= Len(ExpectedDuties)
    /\ \A i \in 1..Len(recorder.log) : recorder.log[i] = ExpectedDuties[i]
    /\ \A t \in 1..Len(threads) :
         ~Running(t) => recorder.log = ExpectedDuties

\* A 16-bit clip of one buffer, one more sample and half a sample has been
\* played to its end
C20_Witness ==
    /\ Len(threads) = 1
    /\ ~Running(1)
    /\ _sample_bits = 16
    /\ Len(storage[CLIP_PATH]) = _chunk_size + 3
    /\ Len(recorder.log) = (_chunk_size \div 2) + 2
    /\ mainpc = "main_32"

====
